---- MODULE Spec2Model ----
(***************************************************************************)
(* A model of the two components of the CVRP helper library:              *)
(*   - DistanceMatrix (src/DistanceMatrix.py): the process-wide cache of   *)
(*     the last routing response and the reshaping of the flat result     *)
(*     list into a matrix;                                                 *)
(*   - Address (src/Address.py): an address record and its geocode()      *)
(*     operation.                                                          *)
(* The two components share no state; each has its own next-state         *)
(* relation and specification.                                             *)
(***************************************************************************)
EXTENDS Integers, Sequences, FiniteSets, TLC

(***************************************************************************)
(* Bounds of the model.                                                    *)
(***************************************************************************)
\* longest coordinate list a caller passes to get_matrix
MaxLen == 2
\* number of get_matrix invocations explored
MaxCalls == 2
\* number of geocode() invocations explored on the record
MaxGeocodes == 3
\* most features a geocoder response carries
MaxFeatures == 1

(***************************************************************************)
(* Inputs.                                                                 *)
(***************************************************************************)
\* coordinate strings ("latitude, longitude" texts), kept abstract
Coords == {"A", "B"}

\* the lists a caller can pass: every sequence over Coords up to MaxLen
GeocodeLists == UNION {[1..n -> Coords] : n \in 0..MaxLen}

\* the keys get_matrix accepts
RecognizedKeys == {"travelDistance", "travelDuration"}

\* the keys a caller passes: the two recognized ones and one that is not
Keys == RecognizedKeys \cup {"travelTime"}

\* what the routing service does with a request: answer 200, answer with
\* another status, or fail in transport (requests.get raises)
ServiceOutcomes == {"ok", "denied", "transport_error"}

VARIABLES
    response,                   \* DistanceMatrix.__response
    last_requested,             \* DistanceMatrix.__last_requested
    number_of_requests_saved,   \* DistanceMatrix.__number_of_requests_saved
    number_of_requests_made,    \* DistanceMatrix.__number_of_requests_made
    ncalls,                     \* history: get_matrix invocations so far
    call,                       \* history: the last get_matrix invocation
    prev_geocodes,              \* history: list of the last recognized-key call
    cached_for,                 \* history: list sent in the request that
                                \*          produced the cached response
    info,                       \* Address.__info
    latitude,                   \* Address.__latitude
    longitude,                  \* Address.__longitude
    ngeocode,                   \* history: geocode() invocations so far
    geocoder_calls,             \* history: external geocoding calls so far
    geo                         \* history: the last geocode() invocation

dmVars == <<response, last_requested, number_of_requests_saved,
            number_of_requests_made, ncalls, call, prev_geocodes, cached_for>>
addrVars == <<info, latitude, longitude, ngeocode, geocoder_calls, geo>>
vars == <<response, last_requested, number_of_requests_saved,
          number_of_requests_made, ncalls, call, prev_geocodes, cached_for,
          info, latitude, longitude, ngeocode, geocoder_calls, geo>>

(***************************************************************************)
(* Helpers.                                                                *)
(***************************************************************************)
\* Python's set(list)
ToSet(list) == {list[i] : i \in 1..Len(list)}

\* Python's len(dict): a dict is a function from its keys
DictLen(dict) == Cardinality(DOMAIN dict)

(***************************************************************************)
(* The routing service (Bing Maps Distance Matrix), a deterministic        *)
(* collaborator: one result per (origin, destination) pair, row-major.     *)
(***************************************************************************)
CoordNumber(c) == IF c = "A" THEN 1 ELSE 2

\* travel is not symmetric: A -> B and B -> A differ
TravelDistance(origin, destination) ==
    IF origin = destination THEN 0
    ELSE 10 * CoordNumber(origin) + CoordNumber(destination)

TravelDuration(origin, destination) ==
    IF origin = destination THEN 0
    ELSE 100 + 20 * CoordNumber(origin) + CoordNumber(destination)

\* the flat result list for origins = destinations = geocodes
ServiceResults(geocodes) ==
    LET n == Len(geocodes)
    IN [k \in 1..(n * n) |->
          LET o == ((k - 1) \div n) + 1
              d == ((k - 1) % n) + 1
          IN [originIndex      |-> o - 1,
              destinationIndex |-> d - 1,
              travelDistance   |-> TravelDistance(geocodes[o], geocodes[d]),
              travelDuration   |-> TravelDuration(geocodes[o], geocodes[d])]]

\* the JSON body of the service's answer to a request for geocodes
ServiceResponse(geocodes, outcome) ==
    IF outcome = "ok"
    THEN [statusCode        |-> 200,
          statusDescription |-> "OK",
          resourceSets      |-> <<[resources |->
                                     <<[results |-> ServiceResults(geocodes)]>>]>>]
    ELSE [statusCode        |-> 401,
          statusDescription |-> "Unauthorized",
          resourceSets      |-> <<>>]

(***************************************************************************)
(* DistanceMatrix                                                          *)
(***************************************************************************)
\* DistanceMatrix.__response = {} : the empty dict
EmptyResponse == <<>>

\* a validation that lets one more key through
IsRecognizedKey_lax(key) == key \in RecognizedKeys \cup {"travelTime"}

\* key in ["travelDistance", "travelDuration"]
IsRecognizedKey(key) == key \in RecognizedKeys

\* a comparison of the two lists as sequences
identical_list_ordered(list1, list2) == list1 = list2

\* __identical_list: both set differences are empty
identical_list(list1, list2) ==
    /\ Cardinality(ToSet(list1) \ ToSet(list2)) = 0
    /\ Cardinality(ToSet(list2) \ ToSet(list1)) = 0

\* the row test on the 0-based counter itself
RowComplete_zeroBased(counter, n) == counter % n = 0

\* the test that closes a row: (counter + 1) % len(geocodes) == 0
RowComplete(counter, n) == (counter + 1) % n = 0

\* the loop of __build_matrix over enumerate(results), from position counter
\* (0-based) with the row and the matrix built so far
RECURSIVE build_loop(_, _, _, _, _)
build_loop(results, counter, n, row, matrix) ==
    IF counter >= Len(results) THEN matrix
    ELSE LET item   == results[counter + 1]
             result == [travelDistance |-> item.travelDistance,
                        travelDuration |-> item.travelDuration]
             row2   == Append(row, result)
         IN IF RowComplete(counter, n)
            THEN build_loop(results, counter + 1, n, <<>>, Append(matrix, row2))
            ELSE build_loop(results, counter + 1, n, row2, matrix)

\* a reshaping that does not look at the status: a response without result
\* sets makes the subscripting raise
build_matrix_unchecked(geocodes, resp) ==
    IF Len(resp.resourceSets) = 0
    THEN [raised |-> "IndexError", matrix |-> <<>>]
    ELSE LET results == resp.resourceSets[1].resources[1].results
         IN IF Len(results) > 0 /\ Len(geocodes) = 0
            THEN [raised |-> "ZeroDivisionError", matrix |-> <<>>]
            ELSE [raised |-> "",
                  matrix |-> build_loop(results, 0, Len(geocodes), <<>>, <<>>)]

\* __build_matrix: the grid of a 200 response, the empty grid otherwise.
\* With an empty geocodes list and a non-empty result list the modulo divides
\* by zero and the call raises.
build_matrix(geocodes, resp) ==
    IF resp.statusCode = 200
    THEN LET results == resp.resourceSets[1].resources[1].results
         IN IF Len(results) > 0 /\ Len(geocodes) = 0
            THEN [raised |-> "ZeroDivisionError", matrix |-> <<>>]
            ELSE [raised |-> "",
                  matrix |-> build_loop(results, 0, Len(geocodes), <<>>, <<>>)]
    ELSE [raised |-> "", matrix |-> <<>>]

\* a counter that is never advanced
count_request_dropped(made) == made

\* DistanceMatrix.__number_of_requests_made += 1
count_request(made) == made + 1

\* __request_matrix: the state it leaves and what it returns, for the
\* service behaviour `outcome` (read only when a request is issued)
request_matrix(geocodes, outcome) ==
    LET condition1 == \/ DictLen(response) = 0
                      \/ response.statusCode # 200
        condition2 == ~ identical_list(last_requested, geocodes)
        made       == count_request(number_of_requests_made)
    IN IF condition1 \/ condition2
       THEN IF outcome = "transport_error"
            THEN \* requests.get raises after __last_requested is assigned
                 [made |-> made, saved |-> number_of_requests_saved,
                  last_requested |-> geocodes, response |-> response,
                  requested |-> TRUE, raised |-> "ConnectionError"]
            ELSE [made |-> made, saved |-> number_of_requests_saved,
                  last_requested |-> geocodes,
                  response |-> ServiceResponse(geocodes, outcome),
                  requested |-> TRUE, raised |-> ""]
       ELSE [made |-> made, saved |-> number_of_requests_saved + 1,
             last_requested |-> last_requested, response |-> response,
             requested |-> FALSE, raised |-> ""]

\* matrix = [[x[key] for x in row] for row in grid]
Project(grid, key) ==
    [i \in 1..Len(grid) |->
        [j \in 1..Len(grid[i]) |->
            IF key = "travelDistance" THEN grid[i][j].travelDistance
                                      ELSE grid[i][j].travelDuration]]

\* get_matrix: the state it leaves and what it returns
get_matrix(geocodes, key, outcome) ==
    IF ~ IsRecognizedKey(key)
    THEN [made |-> number_of_requests_made, saved |-> number_of_requests_saved,
          last_requested |-> last_requested, response |-> response,
          requested |-> FALSE, raised |-> "", matrix |-> <<>>]
    ELSE LET r == request_matrix(geocodes, outcome)
         IN IF r.raised # ""
            THEN [made |-> r.made, saved |-> r.saved,
                  last_requested |-> r.last_requested, response |-> r.response,
                  requested |-> r.requested, raised |-> r.raised,
                  matrix |-> <<>>]
            ELSE LET grid == build_matrix(geocodes, r.response)
                 IN [made |-> r.made, saved |-> r.saved,
                     last_requested |-> r.last_requested,
                     response |-> r.response,
                     requested |-> r.requested, raised |-> grid.raised,
                     matrix |-> IF grid.raised # "" THEN <<>>
                                ELSE Project(grid.matrix, key)]

\* one invocation of DistanceMatrix.get_matrix
GetMatrix(geocodes, key, outcome) ==
    /\ ncalls < MaxCalls
    /\ LET r == get_matrix(geocodes, key, outcome)
       IN \* the service is consulted only when a request is issued
          /\ r.requested \/ outcome = "ok"
          /\ response' = r.response
          /\ last_requested' = r.last_requested
          /\ number_of_requests_saved' = r.saved
          /\ number_of_requests_made' = r.made
          /\ call' = [geocodes |-> geocodes, key |-> key,
                      requested |-> r.requested,
                      outcome |-> IF r.requested THEN outcome ELSE "",
                      raised |-> r.raised, matrix |-> r.matrix]
          /\ cached_for' = IF r.requested /\ r.raised = ""
                           THEN geocodes ELSE cached_for
    /\ ncalls' = ncalls + 1
    /\ prev_geocodes' = IF IsRecognizedKey(key) THEN geocodes ELSE prev_geocodes
    /\ UNCHANGED addrVars

\* __last_requested = geocodes keeps the caller's list object: the caller
\* changing that list in place changes __last_requested with it
CallerModifiesList(list) ==
    /\ number_of_requests_made > 0
    /\ list # last_requested
    /\ last_requested' = list
    /\ UNCHANGED <<response, number_of_requests_saved, number_of_requests_made,
                   ncalls, call, prev_geocodes, cached_for>>
    /\ UNCHANGED addrVars

(***************************************************************************)
(* Address                                                                 *)
(***************************************************************************)
\* float("NaN"), the value of latitude and longitude before geocoding: a
\* number outside every range the model uses, compared as Python compares
\* NaN (every ordering test with it is false)
NaN == 999

\* Python's x < y and x <= y on floats
Lt(x, y) == x # NaN /\ y # NaN /\ x < y
Le(x, y) == x # NaN /\ y # NaN /\ x <= y

\* the latitudes and longitudes a geocoder result can carry: in range, on
\* the edges of the range, and outside it
Latitudes == {-91, -90, 45, 90, 91}
Longitudes == {-181, -180, 0, 180, 181}

\* one result of the geocoder: a geocodejson feature, (longitude, latitude)
Features ==
    {[geometry |-> [coordinates |-> <<lon, lat>>]] :
        lon \in Longitudes, lat \in Latitudes}

\* the JSON bodies the geocoder answers with
GeocoderBodies ==
    {[type |-> "FeatureCollection", features |-> f] :
        f \in UNION {[1..n -> Features] : n \in 0..MaxFeatures}}

\* what Address.Geocode.get_geocode(self).json() does: raise, or a body
GeocoderOutcomes ==
    {[raised |-> TRUE, body |-> <<>>]} \cup
    {[raised |-> FALSE, body |-> b] : b \in GeocoderBodies}

\* a guard that lets every call through
IsUnresolved_always(metadata) == TRUE

\* not self.__info : the metadata dict is empty
IsUnresolved(metadata) == DictLen(metadata) = 0

\* Address.geocode: the state it leaves, whether it called the geocoder and
\* what it raised
geocode(outcome) ==
    IF IsUnresolved(info)
    THEN IF outcome.raised
         THEN [info |-> info, latitude |-> latitude, longitude |-> longitude,
               called |-> TRUE, raised |-> "ConnectionError"]
         ELSE LET body == outcome.body
              IN IF Len(body.features) = 0
                 THEN [info |-> body, latitude |-> latitude,
                       longitude |-> longitude,
                       called |-> TRUE, raised |-> "IndexError"]
                 ELSE LET lon == body.features[1].geometry.coordinates[1]
                          lat == body.features[1].geometry.coordinates[2]
                      IN IF Lt(lat, -90) \/ Lt(90, lat)
                         THEN [info |-> body, latitude |-> latitude,
                               longitude |-> longitude,
                               called |-> TRUE, raised |-> "Exception"]
                         ELSE IF Lt(lon, -180) \/ Lt(180, lon)
                         THEN [info |-> body, latitude |-> latitude,
                               longitude |-> longitude,
                               called |-> TRUE, raised |-> "Exception"]
                         ELSE [info |-> body, latitude |-> lat,
                               longitude |-> lon,
                               called |-> TRUE, raised |-> ""]
    ELSE [info |-> info, latitude |-> latitude, longitude |-> longitude,
          called |-> FALSE, raised |-> ""]

\* one invocation of geocode() on the record
Geocode(outcome) ==
    /\ ngeocode < MaxGeocodes
    /\ LET r == geocode(outcome)
       IN /\ info' = r.info
          /\ latitude' = r.latitude
          /\ longitude' = r.longitude
          /\ geocoder_calls' = geocoder_calls + (IF r.called THEN 1 ELSE 0)
          /\ geo' = [called |-> r.called, raised |-> r.raised,
                     failed |-> geo.failed +
                         (IF r.raised = "ConnectionError" THEN 1 ELSE 0)]
    /\ ngeocode' = ngeocode + 1
    /\ UNCHANGED dmVars

(***************************************************************************)
(* Specifications                                                          *)
(***************************************************************************)
Init ==
    /\ response = EmptyResponse
    /\ last_requested = <<>>
    /\ number_of_requests_saved = 0
    /\ number_of_requests_made = 0
    /\ ncalls = 0
    /\ call = [geocodes |-> <<>>, key |-> "", requested |-> FALSE,
               outcome |-> "", raised |-> "", matrix |-> <<>>]
    /\ prev_geocodes = <<>>
    /\ cached_for = <<>>
    /\ info = <<>>
    /\ latitude = NaN
    /\ longitude = NaN
    /\ ngeocode = 0
    /\ geocoder_calls = 0
    /\ geo = [called |-> FALSE, raised |-> "", failed |-> 0]

\* any sequence of get_matrix calls
Next ==
    \E geocodes \in GeocodeLists, key \in Keys, outcome \in ServiceOutcomes :
        GetMatrix(geocodes, key, outcome)

Spec == Init /\ [][Next]_vars

\* get_matrix calls, and the caller changing in place the list it passed
NextAlias ==
    \/ \E geocodes \in GeocodeLists, key \in Keys, outcome \in ServiceOutcomes :
          GetMatrix(geocodes, key, outcome)
    \/ \E list \in GeocodeLists : CallerModifiesList(list)

SpecAlias == Init /\ [][NextAlias]_vars

\* any sequence of geocode() calls on one Address record
NextAddress == \E outcome \in GeocoderOutcomes : Geocode(outcome)

SpecAddress == Init /\ [][NextAddress]_vars

(***************************************************************************)
(* Properties                                                              *)
(***************************************************************************)
\* a get_matrix step whose key is one of the two recognized metrics
RecognizedCallStep == ncalls' = ncalls + 1 /\ call'.key \in RecognizedKeys

\* the last invocation was get_matrix with a recognized metric
RecognizedCall == ncalls > 0 /\ call.key \in RecognizedKeys

\* the cached response cannot serve a request for geocodes: there is none, it
\* is no success, or geocodes differs as a set from the list of the previous
\* recognized-key call
Stale(geocodes) ==
    \/ DictLen(response) = 0
    \/ response.statusCode # 200
    \/ ToSet(geocodes) # ToSet(prev_geocodes)

\* the n x n matrix of metric key between the coordinates of geocodes
FreshMatrix(geocodes, key) ==
    [i \in 1..Len(geocodes) |->
        [j \in 1..Len(geocodes) |->
            IF key = "travelDistance"
            THEN TravelDistance(geocodes[i], geocodes[j])
            ELSE TravelDuration(geocodes[i], geocodes[j])]]

\* matrix has n rows of n entries
IsSquare(matrix, n) ==
    /\ Len(matrix) = n
    /\ \A i \in 1..Len(matrix) : Len(matrix[i]) = n

\* field key of one flat result
Field(item, key) ==
    IF key = "travelDistance" THEN item.travelDistance ELSE item.travelDuration

\* C1: a get_matrix call with a recognized metric issues an external request
\* exactly when no response is cached, or the cached status is not 200, or the
\* requested list differs as a set from the previously requested list;
\* otherwise it issues none, keeps the cached response and adds exactly one
\* to the requests-saved counter (which a call that issues a request leaves
\* alone).
C1_RequestIffStale ==
    [][RecognizedCallStep =>
          /\ call'.requested <=> Stale(call'.geocodes)
          /\ ~ Stale(call'.geocodes) =>
                /\ response' = response
                /\ number_of_requests_saved' = number_of_requests_saved + 1
          /\ Stale(call'.geocodes) =>
                number_of_requests_saved' = number_of_requests_saved]_vars

\* C1 witness: a cache hit on a reordering of the cached list, counted as one
\* saved request
C1_Witness ==
    /\ RecognizedCall
    /\ ~ call.requested
    /\ call.geocodes # last_requested
    /\ Len(call.geocodes) = 2
    /\ call.geocodes[1] # call.geocodes[2]
    /\ Len(last_requested) = 2
    /\ number_of_requests_saved = 1

\* C2: a call with a recognized metric whose response status is 200 returns
\* a matrix of N rows and N columns, N the length of the list passed to that
\* call, whether the response was fetched or reused.
C2_SquareMatrix ==
    (/\ RecognizedCall
     /\ call.raised # "ConnectionError"
     /\ DictLen(response) # 0
     /\ response.statusCode = 200)
    => /\ call.raised = ""
       /\ IsSquare(call.matrix, Len(call.geocodes))

\* C3: after a newly issued request over N coordinates answered 200 with
\* N*N flat results, the matrix returned for metric m has N rows of N
\* entries and entry [i][j] is field m of flat result i*N + j, the result for
\* origin i and destination j.
C3_ReshapeRowMajor ==
    (/\ RecognizedCall
     /\ call.requested
     /\ call.outcome = "ok")
    => LET n    == Len(call.geocodes)
           flat == response.resourceSets[1].resources[1].results
       IN /\ call.raised = ""
          /\ Len(flat) = n * n
          /\ IsSquare(call.matrix, n)
          /\ \A i, j \in 0..(n - 1) :
                /\ call.matrix[i + 1][j + 1] = Field(flat[i * n + j + 1], call.key)
                /\ flat[i * n + j + 1].originIndex = i
                /\ flat[i * n + j + 1].destinationIndex = j

\* C3 witness: a fetched 2 x 2 duration matrix over two different coordinates
C3_Witness ==
    /\ RecognizedCall
    /\ call.requested
    /\ call.outcome = "ok"
    /\ call.key = "travelDuration"
    /\ Len(call.geocodes) = 2
    /\ call.geocodes[1] # call.geocodes[2]
    /\ Len(call.matrix) = 2

\* C4 (as claimed): every invocation of get_matrix adds one to the
\* requests-made counter, so the counter equals the number of invocations.
C4_CountsEveryInvocation == number_of_requests_made = ncalls

\* C4 (amended): an invocation with a recognized metric adds exactly one to
\* the requests-made counter, whether it issues a request, reuses the cache
\* or fails in transport; an invocation with an unrecognized metric leaves
\* the counter unchanged.
C4_CountsRecognizedInvocations ==
    [][ncalls' = ncalls + 1 =>
          number_of_requests_made' =
              number_of_requests_made +
                  (IF call'.key \in RecognizedKeys THEN 1 ELSE 0)]_vars

\* C4 witness: two invocations, the last one a cache hit, both counted
C4_Witness ==
    /\ RecognizedCall
    /\ ~ call.requested
    /\ ncalls = 2
    /\ number_of_requests_made = 2

\* C5: a call with an unrecognized metric returns the empty result, raises
\* nothing, issues no request and leaves the cached response, the remembered
\* list and the requests-saved counter as they were.
C5_UnrecognizedMetric ==
    [][(ncalls' = ncalls + 1 /\ call'.key \notin RecognizedKeys) =>
          /\ call'.matrix = <<>>
          /\ call'.raised = ""
          /\ ~ call'.requested
          /\ response' = response
          /\ last_requested' = last_requested
          /\ number_of_requests_saved' = number_of_requests_saved]_vars

\* C5 witness: an unrecognized metric asked of a cache that holds a success
C5_Witness ==
    /\ ncalls > 1
    /\ call.key \notin RecognizedKeys
    /\ DictLen(response) # 0
    /\ response.statusCode = 200
    /\ Len(last_requested) > 0
    /\ call.matrix = <<>>

\* C6: when the service answers a newly issued request with a status other
\* than 200, get_matrix returns the empty matrix without raising, and the
\* failing response and the requested list become the cached ones.
C6_DegradedResponse ==
    (/\ RecognizedCall
     /\ call.requested
     /\ call.outcome = "denied")
    => /\ call.raised = ""
       /\ call.matrix = <<>>
       /\ DictLen(response) # 0
       /\ response.statusCode # 200
       /\ response = ServiceResponse(call.geocodes, "denied")
       /\ last_requested = call.geocodes

\* C6 witness: a non-200 answer replacing a cached success
C6_Witness ==
    /\ RecognizedCall
    /\ ncalls > 1
    /\ call.requested
    /\ call.outcome = "denied"
    /\ response.statusCode = 401
    /\ Len(call.geocodes) = 2
    /\ number_of_requests_made = 2

\* C7 (as claimed): two geocode() calls on a record perform the external
\* call at most once in total, whatever the geocoder does.
C7_AtMostOneExternalCall == ngeocode = 2 => geocoder_calls <= 1

\* C7 (amended): once a geocode() call has received a response body, so that
\* the metadata is non-empty, a later geocode() call performs no external
\* call, raises nothing and leaves latitude, longitude and metadata as they
\* were; the external calls made in total are at most one more than the
\* calls that failed in transport.
C7_IdempotentOnceAnswered ==
    /\ [](geocoder_calls <= geo.failed + 1)
    /\ [][(ngeocode' = ngeocode + 1 /\ DictLen(info) # 0) =>
             /\ ~ geo'.called
             /\ geo'.raised = ""
             /\ info' = info
             /\ latitude' = latitude
             /\ longitude' = longitude
             /\ geocoder_calls' = geocoder_calls]_vars

\* C7 witness: a second call on a resolved record, one external call made
C7_Witness ==
    /\ ngeocode = 2
    /\ geocoder_calls = 1
    /\ DictLen(info) # 0
    /\ ~ geo.called
    /\ latitude # NaN
    /\ longitude # NaN

\* C8: a record whose metadata is non-empty (here: holding a first result)
\* has -90 <= latitude <= 90 and -180 <= longitude <= 180; nothing of an
\* out-of-range result is stored.
C8_ResolvedWithinBounds ==
    (DictLen(info) # 0 /\ Len(info.features) > 0)
    => /\ Le(-90, latitude) /\ Le(latitude, 90)
       /\ Le(-180, longitude) /\ Le(longitude, 180)

\* C9: a matrix answered from the cache equals the matrix a fresh request
\* for the current list returns: entry [i][j] is the metric from
\* coordinates[i] to coordinates[j] of the current list.
C9_CacheTransparency ==
    (RecognizedCall /\ ~ call.requested)
    => /\ call.raised = ""
       /\ call.matrix = FreshMatrix(call.geocodes, call.key)

\* C10: whenever a response is cached, the remembered list is the list sent
\* in the request that produced it.
C10_CacheCoherence ==
    DictLen(response) # 0 => last_requested = cached_for

====
